---------------------------- MODULE Spec2Model ----------------------------
(***************************************************************************)
(* Linear B diachronic phonological mapper: the rule-based engines         *)
(* (morphological analyzer, paradigm generator, phonology engine) as a     *)
(* state machine over the loaded data tables.                              *)
(*                                                                         *)
(* Representation.  A Python str is a sequence of one-character strings    *)
(* (<<"k","a","-","t","e">> is 'ka-te').  A Python dict is a sequence of   *)
(* entries in insertion order with pairwise distinct keys.  A confidence   *)
(* is kept in tenths (9 is 0.9).  The null-ending marker U+2205 is the     *)
(* character NullMarker.  A declension cell key 'case_number' is kept as   *)
(* the pair rsplit('_', 1) produces: the analyzer's constructor raises on  *)
(* a key without '_', so no constructed analyzer holds one.                *)
(***************************************************************************)
EXTENDS Integers, Sequences, FiniteSets, TLC

VARIABLES
    paradigms,     \* data/paradigms.json as loaded (analyzer and generator)
    lexicon,       \* data/lexicon.json 'words' as loaded
    ending_map,    \* MorphologicalAnalyzer.ending_map
    rules_file,    \* data/phonological_rules.json: present or not, its content
    rules,         \* PhonologyEngine.rules
    constructed,   \* the engines whose constructor has run
    call,          \* the last call made to an engine, with what it returned
    syllabary,     \* data/syllabary.json 'signs' as loaded
    text,          \* the tablet text handed to the tokenizer and transcriber
    kept           \* a DiachronicPath a caller was returned earlier and kept

vars ==
    <<paradigms, lexicon, ending_map, rules_file, rules, constructed, call,
      syllabary, text, kept>>

(***************************************************************************)
(* Bounds of the model                                                     *)
(***************************************************************************)
MaxSyll == 3
MaxEndingsPerCell == 1
MaxCaseMarkers == 1
MaxFormLen == 3
MaxTextLen == 3

(***************************************************************************)
(* Python str operations                                                   *)
(***************************************************************************)
Hyphen == "-"
NullMarker == "NULL"
None == "None"

\* s.replace(c, '') for a one-character c
RemoveChar(s, c) == SelectSeq(s, LAMBDA x : x # c)

\* s.startswith(p)
StartsWith(s, p) == Len(p) <= Len(s) /\ SubSeq(s, 1, Len(p)) = p

\* s.endswith(p)
EndsWith(s, p) == Len(p) <= Len(s) /\ SubSeq(s, Len(s) - Len(p) + 1, Len(s)) = p

\* s[:-n] for n >= 1
DropLast(s, n) == SubSeq(s, 1, Len(s) - n)

\* '-'.join(parts) and ''.join(parts)
RECURSIVE JoinWith(_, _)
JoinWith(parts, sep) ==
    IF parts = <<>> THEN <<>>
    ELSE IF Len(parts) = 1 THEN parts[1]
    ELSE parts[1] \o sep \o JoinWith(Tail(parts), sep)

\* sorted(items, key=..., reverse=True): stable, descending by key.
\* dec is the sequence of [key, item] pairs in the order of the input.
RECURSIVE InsertDesc(_, _)
InsertDesc(sortedSeq, p) ==
    IF sortedSeq = <<>> THEN <<p>>
    ELSE IF Head(sortedSeq).key >= p.key
         THEN <<Head(sortedSeq)>> \o InsertDesc(Tail(sortedSeq), p)
         ELSE <<p>> \o sortedSeq

RECURSIVE SortPairsDesc(_)
SortPairsDesc(dec) ==
    IF dec = <<>> THEN <<>>
    ELSE InsertDesc(SortPairsDesc(SubSeq(dec, 1, Len(dec) - 1)), dec[Len(dec)])

SortedAscByKey(dec) ==
    LET r == SortPairsDesc(dec)
    IN  [i \in 1..Len(r) |-> r[Len(r) + 1 - i]]

SortedDescByKey(dec) == SortPairsDesc(dec)

Items(dec) == [i \in 1..Len(dec) |-> dec[i].item]

(***************************************************************************)
(* morphology.py: MorphologicalAnalyzer                                    *)
(***************************************************************************)
\* ending_map[key].append(info), creating the list on first use
DictAppend(map, key, info) ==
    IF \E i \in 1..Len(map) : map[i].ending = key
    THEN LET i == CHOOSE j \in 1..Len(map) : map[j].ending = key
         IN  [map EXCEPT ![i].infos = Append(@, info)]
    ELSE Append(map, [ending |-> key, infos |-> <<info>>])

\* the case_markers loop: the key is stripped of '-' only, and registered
\* whatever is left
RECURSIVE AddCaseMarkers(_, _)
AddCaseMarkers(map, markers) ==
    IF markers = <<>> THEN map
    ELSE AddCaseMarkers(
            DictAppend(map, RemoveChar(Head(markers).key, Hyphen), Head(markers).info),
            Tail(markers))

\* ending.replace('-', '').replace(NullMarker, '')
CleanDeclEnding(ending) == RemoveChar(RemoveChar(ending, Hyphen), NullMarker)

\* for ending in endings: register unless the cleaned ending is empty
RECURSIVE AddEndings(_, _, _, _)
AddEndings(map, endings, cell, decl_name) ==
    IF endings = <<>> THEN map
    ELSE LET clean == CleanDeclEnding(Head(endings))
             next  == IF clean = <<>> THEN map
                      ELSE DictAppend(map, clean,
                               [case |-> cell.case, number |-> cell.number,
                                declension |-> decl_name])
         IN  AddEndings(next, Tail(endings), cell, decl_name)

\* for case_num, endings in decl_data.get('endings', {}).items()
RECURSIVE AddCells(_, _, _)
AddCells(map, cells, decl_name) ==
    IF cells = <<>> THEN map
    ELSE AddCells(AddEndings(map, Head(cells).endings, Head(cells).key, decl_name),
                  Tail(cells), decl_name)

\* for decl_name, decl_data in self.paradigms.get('noun_declensions', {}).items()
RECURSIVE AddDeclensions(_, _)
AddDeclensions(map, decls) ==
    IF decls = <<>> THEN map
    ELSE AddDeclensions(AddCells(map, Head(decls).endings, Head(decls).name),
                        Tail(decls))

_build_ending_map(p) ==
    AddDeclensions(AddCaseMarkers(<<>>, p.case_markers), p.noun_declensions)

\* sorted(analyses, key=lambda x: x.confidence, reverse=True)
SortByConfidenceAsc(analyses) ==
    Items(SortedAscByKey([i \in 1..Len(analyses) |->
              [key |-> analyses[i].confidence, item |-> analyses[i]]]))

SortByConfidence(analyses) ==
    Items(SortedDescByKey([i \in 1..Len(analyses) |->
              [key |-> analyses[i].confidence, item |-> analyses[i]]]))

\* the analyses one matching ending gives: one per info registered under it
EndingAnalyses(translit, stem, entry, conf, note) ==
    [i \in 1..Len(entry.infos) |->
        [transliteration |-> translit, stem |-> stem, ending |-> entry.ending,
         case |-> entry.infos[i].case, number |-> entry.infos[i].number,
         declension |-> entry.infos[i].declension,
         confidence |-> conf, notes |-> note]]

\* the loop over self.ending_map.items() of _analyze_known_word
RECURSIVE KnownLoop(_, _, _)
KnownLoop(entries, original, normalized) ==
    IF entries = <<>> THEN <<>>
    ELSE LET e == Head(entries)
             here == IF EndsWith(normalized, e.ending) /\ e.ending # <<>>
                     THEN EndingAnalyses(original, DropLast(normalized, Len(e.ending)),
                                         e, 9, "attested_in_lexicon")
                     ELSE <<>>
         IN  here \o KnownLoop(Tail(entries), original, normalized)

LexiconHas(lex, key) == \E w \in lex : w.key = key

LexiconEntry(lex, key) == CHOOSE w \in lex : w.key = key

_analyze_known_word(map, lex, original, normalized) ==
    LET word_data == LexiconEntry(lex, original)
        stem == IF word_data.has_stem THEN word_data.stem ELSE normalized
        found == KnownLoop(map, original, normalized)
        analyses ==
            IF found = <<>>
            THEN << [transliteration |-> original, stem |-> stem, ending |-> <<>>,
                     case |-> "nominative", number |-> "singular",
                     declension |-> None, confidence |-> 8,
                     notes |-> "citation_form"] >>
            ELSE found
    IN  SortByConfidence(analyses)

\* sorted(self.ending_map.items(), key=lambda x: len(x[0]), reverse=True)
EndingsInMapOrder(map) == map

EndingsByLength(map) ==
    Items(SortedDescByKey([i \in 1..Len(map) |->
              [key |-> Len(map[i].ending), item |-> map[i]]]))

\* confidence = 0.6 if len(ending) >= 2 else 0.4
UnknownConfidence(ending) == IF Len(ending) >= 2 THEN 6 ELSE 4

\* if len(stem) < 2: continue
StemLongEnoughAny(stem) == TRUE

StemLongEnough(stem) == ~(Len(stem) < 2)

\* the loop over endings_by_length of _segment_unknown_word
RECURSIVE UnknownLoop(_, _)
UnknownLoop(entries, normalized) ==
    IF entries = <<>> THEN <<>>
    ELSE LET e == Head(entries)
             stem == DropLast(normalized, Len(e.ending))
             here == IF EndsWith(normalized, e.ending) /\ e.ending # <<>>
                        /\ StemLongEnough(stem)
                     THEN EndingAnalyses(normalized, stem, e,
                                         UnknownConfidence(e.ending), "tentative")
                     ELSE <<>>
         IN  here \o UnknownLoop(Tail(entries), normalized)

_segment_unknown_word(map, normalized) ==
    LET found == UnknownLoop(EndingsByLength(map), normalized)
        analyses ==
            IF found = <<>>
            THEN << [transliteration |-> normalized, stem |-> normalized,
                     ending |-> <<>>, case |-> None, number |-> None,
                     declension |-> None, confidence |-> 1,
                     notes |-> "cannot_segment"] >>
            ELSE found
    IN  SortByConfidence(analyses)

\* 'transliteration in self.lexicon' tests the literal key, hyphens included
IsKnown(lex, transliteration) == LexiconHas(lex, transliteration)

segment_word(map, lex, transliteration) ==
    LET normalized == RemoveChar(transliteration, Hyphen)
    IN  IF IsKnown(lex, transliteration)
        THEN _analyze_known_word(map, lex, transliteration, normalized)
        ELSE _segment_unknown_word(map, normalized)


(***************************************************************************)
(* phonology.py: PhonologyEngine                                           *)
(***************************************************************************)
\* str.lower() on the characters the forms are drawn from
LowerChar(c) ==
    CASE c = "W" -> "w"
      [] c = "A" -> "a"
      [] c = "S" -> "s"
      [] c = "N" -> "n"
      [] c = "K" -> "k"
      [] OTHER -> c

LowerStr(s) == [i \in 1..Len(s) |-> LowerChar(s[i])]

\* word.find(segment): the 0-based index of the first occurrence, or -1
Find(word, segment) ==
    LET hits == { i \in 0..(Len(word) - Len(segment)) :
                    SubSeq(word, i + 1, i + Len(segment)) = segment }
    IN  IF hits = {} THEN -1
        ELSE CHOOSE i \in hits : \A j \in hits : i <= j

\* segment in word
Contains(word, segment) == Find(word, segment) >= 0

\* form.replace(old, new): every non-overlapping occurrence, left to right;
\* an empty old matches before every character and at the end
RECURSIVE Replace(_, _, _)
Replace(form, old, new) ==
    IF old = <<>>
    THEN IF form = <<>> THEN new
         ELSE new \o <<Head(form)>> \o Replace(Tail(form), old, new)
    ELSE IF Len(form) < Len(old) THEN form
    ELSE IF SubSeq(form, 1, Len(old)) = old
         THEN new \o Replace(SubSeq(form, Len(old) + 1, Len(form)), old, new)
         ELSE <<Head(form)>> \o Replace(Tail(form), old, new)

\* vowels = set('aeiou' + the five long vowels)
Vowels == {"a", "e", "i", "o", "u", "a:", "e:", "i:", "o:", "u:"}

_is_intervocalic(word, segment) ==
    LET idx == Find(word, segment)
    IN  IF idx > 0 /\ idx + Len(segment) < Len(word)
        THEN word[idx] \in Vowels /\ word[idx + Len(segment) + 1] \in Vowels
        ELSE FALSE

\* a test that fires a positional rule only when the target keeps the source
RuleAppliesWhenTargetKeeps(current, target, rule) ==
    LET source == RemoveChar(rule.source, Hyphen)
    IN  IF rule.environment = "#_"
        THEN StartsWith(current, source) /\ StartsWith(target, source)
        ELSE IF rule.environment = "_#"
        THEN EndsWith(current, source) /\ EndsWith(target, source)
        ELSE IF rule.environment = "V_V"
        THEN Contains(current, source) /\ _is_intervocalic(current, source)
        ELSE Contains(current, source) /\ ~Contains(target, source)

_rule_applies(current, target, rule) ==
    LET source == RemoveChar(rule.source, Hyphen)
    IN  IF rule.environment = "#_"
        THEN StartsWith(current, source) /\ ~StartsWith(target, source)
        ELSE IF rule.environment = "_#"
        THEN EndsWith(current, source) /\ ~EndsWith(target, source)
        ELSE IF rule.environment = "V_V"
        THEN Contains(current, source) /\ _is_intervocalic(current, source)
        ELSE Contains(current, source) /\ ~Contains(target, source)

\* form[:-len(source)]: for an empty source this is form[:0]
DropSuffix(form, n) == IF n = 0 THEN <<>> ELSE SubSeq(form, 1, Len(form) - n)

_apply_rule(form, rule) ==
    LET source == RemoveChar(rule.source, Hyphen)
        target == RemoveChar(rule.target, Hyphen)
    IN  IF target = <<NullMarker>>
        THEN IF rule.environment = "#_"
             THEN IF StartsWith(form, source)
                  THEN SubSeq(form, Len(source) + 1, Len(form))
                  ELSE form
             ELSE IF rule.environment = "_#"
             THEN IF EndsWith(form, source)
                  THEN DropSuffix(form, Len(source))
                  ELSE form
             ELSE Replace(form, source, <<>>)
        ELSE Replace(form, source, target)

\* if new_form != current_form
FormChangedAlways(new_form, current_form) == TRUE

FormChanged(new_form, current_form) == new_form # current_form

\* a scan in which every rule is tested against and applied to the
\* Mycenaean form instead of the running form
RECURSIVE ApplyLoopOnInitialForm(_, _, _, _, _, _, _)
ApplyLoopOnInitialForm(rs, i, myc, classical_form, current_form, stages, applied_changes) ==
    IF i > Len(rs)
    THEN [stages |-> stages, changes_applied |-> applied_changes]
    ELSE IF _rule_applies(myc, classical_form, rs[i])
            /\ FormChanged(_apply_rule(myc, rs[i]), current_form)
         THEN ApplyLoopOnInitialForm(rs, i + 1, myc, classical_form,
                  _apply_rule(myc, rs[i]),
                  Append(stages, [form |-> _apply_rule(myc, rs[i]),
                                  period |-> rs[i].period, change |-> rs[i].name]),
                  Append(applied_changes, i))
         ELSE ApplyLoopOnInitialForm(rs, i + 1, myc, classical_form, current_form,
                                     stages, applied_changes)

\* for rule in self.rules: the loop of apply_changes from rule i on.  A rule
\* object of changes_applied is kept as its position in the table.
RECURSIVE ApplyLoop(_, _, _, _, _, _, _)
ApplyLoop(rs, i, myc, classical_form, current_form, stages, applied_changes) ==
    IF i > Len(rs)
    THEN [stages |-> stages, changes_applied |-> applied_changes]
    ELSE LET rule == rs[i]
         IN  IF _rule_applies(current_form, classical_form, rule)
             THEN LET new_form == _apply_rule(current_form, rule)
                  IN  IF FormChanged(new_form, current_form)
                      THEN ApplyLoop(rs, i + 1, myc, classical_form, new_form,
                               Append(stages, [form |-> new_form,
                                               period |-> rule.period,
                                               change |-> rule.name]),
                               Append(applied_changes, i))
                      ELSE ApplyLoop(rs, i + 1, myc, classical_form, current_form,
                                     stages, applied_changes)
             ELSE ApplyLoop(rs, i + 1, myc, classical_form, current_form,
                            stages, applied_changes)

\* an apply_changes whose applied_changes list outlives the call: it starts
\* from the list the previous call left
ApplyChangesSharedList(rs, mycenaean_form, classical_form) ==
    LET myc == LowerStr(RemoveChar(mycenaean_form, Hyphen))
        clas == LowerStr(classical_form)
        left == IF call.op = "apply_changes" THEN call.result.changes_applied
                ELSE <<>>
        loop == ApplyLoop(rs, 1, myc, classical_form, myc,
                    << [form |-> myc, period |-> "1450-1200 BCE",
                        change |-> "Mycenaean Greek (attested)"] >>, left)
    IN  [mycenaean |-> myc,
         classical |-> clas,
         intermediate_stages |->
             Append(loop.stages, [form |-> clas, period |-> "800-400 BCE",
                                  change |-> "Classical Greek"]),
         changes_applied |-> loop.changes_applied]

apply_changes(rs, mycenaean_form, classical_form) ==
    LET myc == LowerStr(RemoveChar(mycenaean_form, Hyphen))
        clas == LowerStr(classical_form)
        loop == ApplyLoop(rs, 1, myc, classical_form, myc,
                    << [form |-> myc, period |-> "1450-1200 BCE",
                        change |-> "Mycenaean Greek (attested)"] >>, <<>>)
    IN  [mycenaean |-> myc,
         classical |-> clas,
         intermediate_stages |->
             Append(loop.stages, [form |-> clas, period |-> "800-400 BCE",
                                  change |-> "Classical Greek"]),
         changes_applied |-> loop.changes_applied]

\* for change in path.changes_applied: one explanation per applied rule, in
\* order (the rule's name stands for the formatted line)
explain_divergence(rs, myc, clas) ==
    LET path == apply_changes(rs, myc, clas)
    IN  [k \in 1..Len(path.changes_applied) |-> rs[path.changes_applied[k]].name]

\* the hardcoded table, used when data/phonological_rules.json is absent
_default_rules ==
    <<
      [name |-> "Initial digamma loss", source |-> <<"w", "-">>,
       target |-> <<NullMarker>>,
       environment |-> "#_", period |-> "1200-800 BCE"],
      [name |-> "Intervocalic digamma loss", source |-> <<"-", "w", "-">>,
       target |-> <<NullMarker>>,
       environment |-> "V_V", period |-> "1000-700 BCE"],
      [name |-> "Labiovelar to labial", source |-> <<"k", "^w">>,
       target |-> <<"p">>,
       environment |-> "_e,i", period |-> "1400-1200 BCE (Pre-Mycenaean)"],
      [name |-> "Labiovelar to velar", source |-> <<"k", "^w">>,
       target |-> <<"k", "/", "t">>,
       environment |-> "_a,o,u", period |-> "1400-1200 BCE"],
      [name |-> "Intervocalic *s loss", source |-> <<"-", "s", "-">>,
       target |-> <<"-", "h", "-">>,
       environment |-> "V_V", period |-> "1200-800 BCE"],
      [name |-> "Final stop loss", source |-> <<"-", "t", ",", "-", "d", ",", "-", "k", ",", "-", "g">>,
       target |-> <<NullMarker>>,
       environment |-> "_#", period |-> "1200-1000 BCE"],
      [name |-> "ti -> si", source |-> <<"t", "i">>,
       target |-> <<"s", "i">>,
       environment |-> "_V", period |-> "800-400 BCE (Attic)"],
      [name |-> "Quantitative metathesis", source |-> <<"V", "R", "V", " ", "(", "s", "h", "o", "r", "t", " ", "V", " ", "+", " ", "r", "e", "s", "o", "n", "a", "n", "t", " ", "+", " ", "l", "o", "n", "g", " ", "V", ")">>,
       target |-> <<"V", "R", "V", " ", "(", "l", "o", "n", "g", " ", "V", " ", "+", " ", "r", "e", "s", "o", "n", "a", "n", "t", " ", "+", " ", "s", "h", "o", "r", "t", " ", "V", ")">>,
       environment |-> "syllable", period |-> "1000-800 BCE"],
      [name |-> "Compensatory lengthening", source |-> <<"V", "s", " ", "->", " ", "V", ":">>,
       target |-> <<"l", "o", "n", "g", " ", "v", "o", "w", "e", "l">>,
       environment |-> "V_C", period |-> "1200-800 BCE"],
      [name |-> "Grassmann's Law", source |-> <<"a", "s", "p", "i", "r", "a", "t", "e", ".", ".", ".", "a", "s", "p", "i", "r", "a", "t", "e", " ", "->", " ", "s", "t", "o", "p", ".", ".", ".", "a", "s", "p", "i", "r", "a", "t", "e">>,
       target |-> <<"C">>,
       environment |-> "aspiration dissimilation", period |-> "Pre-Classical"]
    >>

\* one SoundChange per entry of data['sound_changes'], in file order
_load_rules(data) ==
    [i \in 1..Len(data.sound_changes) |->
        [name |-> data.sound_changes[i].name,
         source |-> data.sound_changes[i].source,
         target |-> data.sound_changes[i].target,
         environment |-> data.sound_changes[i].environment,
         period |-> data.sound_changes[i].period]]

(***************************************************************************)
(* generator.py: ParadigmGenerator and the module-level _syllabify         *)
(***************************************************************************)
\* the attributes of class ParadigmGenerator: its body ends with
\* _is_consonant (line 250).  _syllabify is defined at module level (line
\* 252), and generate_verb_paradigm, _apply_verb_ending and
\* generate_all_forms are nested in it after its return.
ParadigmGeneratorAttrs ==
    {"__init__", "generate_noun_paradigm", "_apply_ending",
     "_apply_orthographic_rules", "_is_consonant", "paradigms", "orthography"}

\* char.lower() not in 'aeiou' + the long vowels + the Greek vowels
GeneratorVowels ==
    Vowels \cup {"alpha", "epsilon", "eta", "iota", "omicron", "upsilon", "omega"}

_is_consonant(char) == LowerChar(char) \notin GeneratorVowels

\* the geminate loop: a doubled consonant is written once, the scan
\* resuming after the pair
RECURSIVE GeminateLoop(_, _)
GeminateLoop(result, i) ==
    IF i > Len(result) THEN <<>>
    ELSE IF i < Len(result) /\ result[i] = result[i + 1] /\ _is_consonant(result[i])
         THEN <<result[i]>> \o GeminateLoop(result, i + 2)
         ELSE <<result[i]>> \o GeminateLoop(result, i + 1)

FinalWritten == {"s", "n", "r"}

_apply_orthographic_rules(form) ==
    LET result == GeminateLoop(form, 1)
    IN  IF result # <<>> /\ _is_consonant(result[Len(result)])
           /\ result[Len(result)] \notin FinalWritten
        THEN SubSeq(result, 1, Len(result) - 1)
        ELSE result

\* the syllabify loop of _syllabify from (1-based) position i on: the
\* syllables it appends
RECURSIVE SyllabifyLoop(_, _)
SyllabifyLoop(form, i) ==
    IF i > Len(form) THEN <<>>
    ELSE IF i < Len(form) /\ _is_consonant(form[i]) /\ ~_is_consonant(form[i + 1])
         THEN <<SubSeq(form, i, i + 1)>> \o SyllabifyLoop(form, i + 2)
    ELSE IF ~_is_consonant(form[i])
         THEN << <<form[i]>> >> \o SyllabifyLoop(form, i + 1)
    ELSE IF i = Len(form)
         THEN (IF form[i] \in FinalWritten THEN << <<form[i]>> >> ELSE <<>>)
              \o SyllabifyLoop(form, i + 1)
    ELSE IF _is_consonant(form[i + 1])
         THEN IF i + 2 <= Len(form) /\ ~_is_consonant(form[i + 2])
              THEN <<SubSeq(form, i + 1, i + 2)>> \o SyllabifyLoop(form, i + 3)
              ELSE LET remaining == SubSeq(form, i, Len(form))
                   IN  IF Len(remaining) <= 2
                          /\ \E k \in 1..Len(remaining) : remaining[k] \in FinalWritten
                       THEN <<remaining>>
                       ELSE <<>>
    ELSE SyllabifyLoop(form, i + 1)

_syllabify(form) ==
    IF form = <<>> THEN form
    ELSE JoinWith(SyllabifyLoop(GeminateLoop(form, 1), 1), <<Hyphen>>)

\* one iteration of the geminate loop at (1-based) index i: the index it
\* leaves and the characters it appends to cleaned
GeminateStep(result, i) ==
    IF i < Len(result) /\ result[i] = result[i + 1] /\ _is_consonant(result[i])
    THEN [i |-> i + 2, out |-> <<result[i]>>]
    ELSE [i |-> i + 1, out |-> <<result[i]>>]

\* an iteration of the syllabify loop that leaves the index where it is at
\* a final consonant that is not written
SyllabifyStepStalling(form, i) ==
    IF i < Len(form) /\ _is_consonant(form[i]) /\ ~_is_consonant(form[i + 1])
    THEN [i |-> i + 2, out |-> <<SubSeq(form, i, i + 1)>>]
    ELSE IF ~_is_consonant(form[i])
    THEN [i |-> i + 1, out |-> << <<form[i]>> >>]
    ELSE IF i = Len(form)
    THEN IF form[i] \in FinalWritten
         THEN [i |-> i + 1, out |-> << <<form[i]>> >>]
         ELSE [i |-> i, out |-> <<>>]
    ELSE [i |-> Len(form) + 1, out |-> <<>>]

\* one iteration of the syllabify loop at (1-based) index i: the index it
\* leaves and the syllables it appends
SyllabifyStep(form, i) ==
    IF i < Len(form) /\ _is_consonant(form[i]) /\ ~_is_consonant(form[i + 1])
    THEN [i |-> i + 2, out |-> <<SubSeq(form, i, i + 1)>>]
    ELSE IF ~_is_consonant(form[i])
    THEN [i |-> i + 1, out |-> << <<form[i]>> >>]
    ELSE IF _is_consonant(form[i])
    THEN IF i = Len(form)
         THEN [i |-> i + 1,
               out |-> IF form[i] \in FinalWritten THEN << <<form[i]>> >> ELSE <<>>]
         ELSE IF i < Len(form) /\ _is_consonant(form[i + 1])
         THEN IF i + 2 <= Len(form) /\ ~_is_consonant(form[i + 2])
              THEN [i |-> i + 3, out |-> <<SubSeq(form, i + 1, i + 2)>>]
              ELSE LET remaining == SubSeq(form, i, Len(form))
                   IN  [i |-> Len(form) + 1,
                        out |-> IF Len(remaining) <= 2
                                   /\ \E k \in 1..Len(remaining) :
                                         remaining[k] \in FinalWritten
                                THEN <<remaining>> ELSE <<>>]
         ELSE [i |-> i + 1, out |-> <<>>]
    ELSE [i |-> i + 1, out |-> <<>>]

\* a call either returns a value or raises
Returned(v) == [raised |-> None, value |-> v]

Raised(e) == [raised |-> e, value |-> <<>>]

\* self._syllabify(lb_form): the attribute lookup on the instance
_apply_ending(stem, ending, declension) ==
    LET ending_clean == RemoveChar(ending, Hyphen)
        reconstruction == IF ending_clean = <<NullMarker>> \/ ending_clean = <<>>
                          THEN stem
                          ELSE stem \o ending_clean
        lb_form == _apply_orthographic_rules(reconstruction)
    IN  IF "_syllabify" \in ParadigmGeneratorAttrs
        THEN Returned(<<_syllabify(lb_form), reconstruction>>)
        ELSE Raised("AttributeError")

\* form in attested_forms, or form without hyphens in attested_forms, or
\* form without hyphens and lower-cased among the attested forms treated
\* the same way
IsAttested(form, attested_forms) ==
    LET has(f) == \E k \in 1..Len(attested_forms) : attested_forms[k] = f
        bare == RemoveChar(form, Hyphen)
    IN  \/ has(form)
        \/ has(bare)
        \/ \E k \in 1..Len(attested_forms) :
              LowerStr(RemoveChar(attested_forms[k], Hyphen)) = LowerStr(bare)

\* for ending in endings: the forms of one cell, or the first exception
RECURSIVE CellForms(_, _, _, _, _, _)
CellForms(endings, cell, stem, declension, gender, attested_forms) ==
    IF endings = <<>> THEN Returned(<<>>)
    ELSE LET r == _apply_ending(stem, Head(endings), declension)
         IN  IF r.raised # None THEN Raised(r.raised)
             ELSE LET rest == CellForms(Tail(endings), cell, stem, declension,
                                        gender, attested_forms)
                  IN  IF rest.raised # None THEN rest
                      ELSE Returned(
                             << [form |-> r.value[1], case |-> cell.case,
                                 number |-> cell.number, gender |-> gender,
                                 attested |-> IsAttested(r.value[1], attested_forms),
                                 reconstruction |-> r.value[2],
                                 notes |-> declension] >> \o rest.value)

\* for case_number, endings in decl_data.get('endings', {}).items()
RECURSIVE ParadigmForms(_, _, _, _, _)
ParadigmForms(cells, stem, declension, gender, attested_forms) ==
    IF cells = <<>> THEN Returned(<<>>)
    ELSE LET here == CellForms(Head(cells).endings, Head(cells).key, stem,
                               declension, gender, attested_forms)
         IN  IF here.raised # None THEN here
             ELSE LET rest == ParadigmForms(Tail(cells), stem, declension, gender,
                                            attested_forms)
                  IN  IF rest.raised # None THEN rest
                      ELSE Returned(here.value \o rest.value)

HasDeclension(p, name) ==
    \E d \in 1..Len(p.noun_declensions) : p.noun_declensions[d].name = name

DeclensionData(p, name) ==
    p.noun_declensions[CHOOSE d \in 1..Len(p.noun_declensions) :
                          p.noun_declensions[d].name = name]

generate_noun_paradigm(p, stem, declension, gender, attested_forms) ==
    LET decl == IF HasDeclension(p, declension) THEN declension
                ELSE "o_stem_masculine"
    IN  IF ~HasDeclension(p, decl) THEN Raised("KeyError")
        ELSE ParadigmForms(DeclensionData(p, decl).endings, stem, decl, gender,
                           attested_forms)

\* the functions nested in _syllabify after its return statement (lines
\* 333-435).  They are written as methods; the class does not have them.
\* present_endings, in insertion order
present_endings ==
    << [person_num |-> <<"1", "s", "g">>, ending |-> <<"-", "o:">>],
       [person_num |-> <<"2", "s", "g">>, ending |-> <<"-", "e", "i", "s">>],
       [person_num |-> <<"3", "s", "g">>, ending |-> <<"-", "e", "i">>],
       [person_num |-> <<"1", "p", "l">>, ending |-> <<"-", "o", "m", "e", "n">>],
       [person_num |-> <<"2", "p", "l">>, ending |-> <<"-", "e", "t", "e">>],
       [person_num |-> <<"3", "p", "l">>, ending |-> <<"-", "o", "n", "s", "i">>] >>

\* person_digit + ('st' if person_digit == '1' else 'nd' if ... else 'rd')
PersonLabel(person_num) ==
    <<person_num[1]>> \o (IF person_num[1] = "1" THEN <<"s", "t">>
                           ELSE IF person_num[1] = "2" THEN <<"n", "d">>
                           ELSE <<"r", "d">>)

_apply_verb_ending(root, ending) ==
    LET ending_clean == RemoveChar(ending, Hyphen)
        reconstruction == root \o ending_clean
        lb_form == _apply_orthographic_rules(reconstruction)
    IN  IF "_syllabify" \in ParadigmGeneratorAttrs
        THEN Returned(<<_syllabify(lb_form), reconstruction>>)
        ELSE Raised("AttributeError")

\* for person_num, ending in present_endings.items(): the forms from entry
\* i on, or the first exception
RECURSIVE VerbForms(_, _, _)
VerbForms(i, root, attested_forms) ==
    IF i > Len(present_endings) THEN Returned(<<>>)
    ELSE LET r == _apply_verb_ending(root, present_endings[i].ending)
         IN  IF r.raised # None THEN Raised(r.raised)
             ELSE LET rest == VerbForms(i + 1, root, attested_forms)
                      has(f) == \E k \in 1..Len(attested_forms) : attested_forms[k] = f
                  IN  IF rest.raised # None THEN rest
                      ELSE Returned(
                             << [form |-> r.value[1], tense |-> "present",
                                 mood |-> "indicative",
                                 person |-> PersonLabel(present_endings[i].person_num),
                                 number |-> IF Contains(present_endings[i].person_num,
                                                        <<"s", "g">>)
                                            THEN "singular" ELSE "plural",
                                 attested |-> has(r.value[1])
                                              \/ has(RemoveChar(r.value[1], Hyphen)),
                                 reconstruction |-> r.value[2]] >> \o rest.value)

generate_verb_paradigm(root, attested_forms) == VerbForms(1, root, attested_forms)

\* a dict of one entry, or the exception of the call that was to fill it
OneEntry(key, forms) ==
    IF forms.raised # None THEN forms
    ELSE Returned(<< [key |-> key, forms |-> forms.value] >>)

\* self.generate_verb_paradigm: the attribute lookup on the instance
generate_all_forms(p, stem, pos, declension, gender, attested_forms) ==
    IF pos = "noun" \/ pos = "adjective"
    THEN OneEntry("inflected_forms",
                  generate_noun_paradigm(p, stem, declension, gender, attested_forms))
    ELSE IF pos = "verb"
    THEN IF "generate_verb_paradigm" \in ParadigmGeneratorAttrs
         THEN OneEntry("conjugated_forms", generate_verb_paradigm(stem, attested_forms))
         ELSE Raised("AttributeError")
    ELSE Returned(<<>>)

\* instance.name(...): the attribute lookup, then the call
Method(name, result) ==
    IF name \in ParadigmGeneratorAttrs THEN result ELSE Raised("AttributeError")

(***************************************************************************)
(* tokenizer.py: LinearBTokenizer.  A character of a text is a string: a   *)
(* sign is named by its code point ("U+10037" is the syllabogram wa).      *)
(***************************************************************************)
SignWA == "U+10037"
SignNA == "U+10019"
SignKA == "U+1000F"
SignNWA == "U+10045"
Ideogram == "U+10080"
NoBreakSpace == "U+00A0"
LineFeed == "\n"

\* ord(char)
Ord(char) ==
    CASE char = SignWA -> 65591
      [] char = SignNA -> 65561
      [] char = SignKA -> 65551
      [] char = SignNWA -> 65605
      [] char = Ideogram -> 65664
      [] char = "U+2E31" -> 11825
      [] char = "U+10100" -> 65792
      [] char = "U+10101" -> 65793
      [] char = NoBreakSpace -> 160
      [] char = " " -> 32
      [] char = LineFeed -> 10
      [] char = "\t" -> 9
      [] char = "5" -> 53
      [] char = "x" -> 120

SYLLABOGRAM_RANGE == <<65536, 65663>>
LOGOGRAM_RANGE == <<65664, 65786>>

delimiter_chars == {"U+2E31", "U+10100", "U+10101", " ", LineFeed, "\t"}

is_syllabogram(char) ==
    SYLLABOGRAM_RANGE[1] <= Ord(char) /\ Ord(char) <= SYLLABOGRAM_RANGE[2]

is_logogram(char) ==
    LOGOGRAM_RANGE[1] <= Ord(char) /\ Ord(char) <= LOGOGRAM_RANGE[2]

is_delimiter(char) == char \in delimiter_chars

\* char.isdigit(): the ASCII digits, the only digits among the characters
\* of the model
IsDigit(char) == 48 <= Ord(char) /\ Ord(char) <= 57

\* a tokenize whose last branch takes an unknown character for a sign
TokenTypeOfUnknownAsSign(char) ==
    IF is_syllabogram(char) THEN "SYLLABOGRAM"
    ELSE IF is_logogram(char) THEN "LOGOGRAM"
    ELSE IF char = LineFeed THEN "LINE_BREAK"
    ELSE IF is_delimiter(char) THEN "WORD_DIVIDER"
    ELSE IF IsDigit(char) THEN "NUMBER"
    ELSE "SYLLABOGRAM"

\* the branch of tokenize a character takes
TokenTypeOf(char) ==
    IF is_syllabogram(char) THEN "SYLLABOGRAM"
    ELSE IF is_logogram(char) THEN "LOGOGRAM"
    ELSE IF char = LineFeed THEN "LINE_BREAK"
    ELSE IF is_delimiter(char) THEN "WORD_DIVIDER"
    ELSE IF IsDigit(char) THEN "NUMBER"
    ELSE "UNKNOWN"

\* Token(char, type, i) for i, char in enumerate(text)
tokenize(t) ==
    [i \in 1..Len(t) |->
        [char |-> t[i], type |-> TokenTypeOf(t[i]), position |-> i - 1]]

\* a flush that appends the current word even when it is empty
FlushAlways(words, current_word) == Append(words, current_word)

\* if current_word: words.append(current_word)
Flush(words, current_word) ==
    IF current_word # <<>> THEN Append(words, current_word) ELSE words

\* for token in tokens: the loop of segment_words from token i on, and the
\* flush after it
RECURSIVE SegmentLoop(_, _, _, _)
SegmentLoop(tokens, i, words, current_word) ==
    IF i > Len(tokens) THEN Flush(words, current_word)
    ELSE LET token == tokens[i] IN
         IF token.type = "SYLLABOGRAM"
         THEN SegmentLoop(tokens, i + 1, words, Append(current_word, token))
         ELSE IF token.type \in {"WORD_DIVIDER", "LINE_BREAK"}
         THEN SegmentLoop(tokens, i + 1, Flush(words, current_word), <<>>)
         ELSE IF token.type = "LOGOGRAM"
         THEN SegmentLoop(tokens, i + 1,
                          Append(Flush(words, current_word), <<token>>), <<>>)
         ELSE IF token.type = "NUMBER"
         THEN IF words # <<>>
                 /\ words[Len(words)][Len(words[Len(words)])].type = "LOGOGRAM"
              THEN SegmentLoop(tokens, i + 1,
                       [words EXCEPT ![Len(words)] = Append(@, token)],
                       current_word)
              ELSE SegmentLoop(tokens, i + 1, Append(words, <<token>>),
                               current_word)
         ELSE SegmentLoop(tokens, i + 1, words, current_word)

segment_words(t) == SegmentLoop(tokenize(t), 1, <<>>, <<>>)

\* the character class of the first re.sub of normalize_text: U+00A0,
\* U+2000..U+200B, U+202F, U+205F, U+3000
IsUnicodeSpace(char) ==
    \/ Ord(char) = 160
    \/ (8192 <= Ord(char) /\ Ord(char) <= 8203)
    \/ Ord(char) \in {8239, 8287, 12288}

\* re.sub(r' +', ' ', t)
RECURSIVE CollapseSpaces(_)
CollapseSpaces(t) ==
    IF Len(t) < 2 THEN t
    ELSE IF t[1] = " " /\ t[2] = " " THEN CollapseSpaces(Tail(t))
    ELSE <<t[1]>> \o CollapseSpaces(Tail(t))

\* the characters str.strip() removes, among the characters left after the
\* Unicode spaces are replaced
IsWhitespace(char) == char \in {" ", LineFeed, "\t"}

\* t.strip()
RECURSIVE Strip(_)
Strip(t) ==
    IF t = <<>> THEN t
    ELSE IF IsWhitespace(t[1]) THEN Strip(Tail(t))
    ELSE IF IsWhitespace(t[Len(t)]) THEN Strip(SubSeq(t, 1, Len(t) - 1))
    ELSE t

normalize_text(t) ==
    Strip(CollapseSpaces([i \in 1..Len(t) |->
                             IF IsUnicodeSpace(t[i]) THEN " " ELSE t[i]]))

\* ''.join(token.char for token in word if token.type == SYLLABOGRAM)
SyllabogramChars(word) ==
    LET syl == SelectSeq(word, LAMBDA token : token.type = "SYLLABOGRAM")
    IN  [k \in 1..Len(syl) |-> syl[k].char]

get_word_strings(t) ==
    LET kept_words ==
            SelectSeq(segment_words(t),
                      LAMBDA word : \E k \in 1..Len(word) :
                                        word[k].type = "SYLLABOGRAM")
    IN  [w \in 1..Len(kept_words) |-> SyllabogramChars(kept_words[w])]

(***************************************************************************)
(* transcriber.py: LinearBTranscriber                                      *)
(***************************************************************************)
\* the value a function returning Optional[str] gives for None
NoneStr == <<None>>

HasSign(table, sign) == \E k \in 1..Len(table) : table[k].sign = sign

SignEntry(table, sign) == table[CHOOSE k \in 1..Len(table) : table[k].sign = sign]

transcribe_sign(table, sign) ==
    IF HasSign(table, sign) THEN SignEntry(table, sign).transliteration
    ELSE NoneStr

HexDigit(d) ==
    <<"0", "1", "2", "3", "4", "5", "6", "7", "8", "9",
      "A", "B", "C", "D", "E", "F">>[d + 1]

RECURSIVE HexDigits(_)
HexDigits(n) ==
    IF n < 16 THEN <<HexDigit(n)>>
    ELSE HexDigits(n \div 16) \o <<HexDigit(n % 16)>>

RECURSIVE ZeroPad(_, _)
ZeroPad(s, width) == IF Len(s) >= width THEN s ELSE ZeroPad(<<"0">> \o s, width)

\* f"{n:04X}"
Hex04(n) == ZeroPad(HexDigits(n), 4)

\* if trans: neither None nor ''
Truthy(s) == s # NoneStr /\ s # <<>>

\* what one token adds to syllables
TokenSyllables(table, token) ==
    IF token.type = "SYLLABOGRAM"
    THEN LET trans == transcribe_sign(table, token.char)
         IN  IF Truthy(trans) THEN <<trans>>
             ELSE << <<"[", "?", token.char, "]">> >>
    ELSE IF token.type = "LOGOGRAM"
    THEN << <<"*">> \o Hex04(Ord(token.char)) >>
    ELSE <<>>

RECURSIVE WordSyllables(_, _)
WordSyllables(table, word_tokens) ==
    IF word_tokens = <<>> THEN <<>>
    ELSE TokenSyllables(table, Head(word_tokens))
         \o WordSyllables(table, Tail(word_tokens))

\* the syllables run together, with no separator
TranscribeWordUnjoined(table, word_tokens) ==
    JoinWith(WordSyllables(table, word_tokens), <<>>)

transcribe_word(table, word_tokens) ==
    JoinWith(WordSyllables(table, word_tokens), <<Hyphen>>)

\* the result of one word, or nothing when its transliteration is ''
WordResult(table, word_tokens) ==
    LET transliteration == transcribe_word(table, word_tokens)
    IN  IF transliteration # <<>>
        THEN << [original |-> [k \in 1..Len(word_tokens) |-> word_tokens[k].char],
                 transliteration |-> transliteration,
                 token_count |->
                     Len(SelectSeq(word_tokens,
                                   LAMBDA tk : tk.type = "SYLLABOGRAM"))] >>
        ELSE <<>>

RECURSIVE TextResults(_, _)
TextResults(table, word_segments) ==
    IF word_segments = <<>> THEN <<>>
    ELSE WordResult(table, Head(word_segments))
         \o TextResults(table, Tail(word_segments))

transcribe_text(table, t) ==
    TextResults(table, segment_words(normalize_text(t)))

\* the six replacements, in order: nw, kw, qu, ph, th, kh
Digraphs ==
    << [old |-> <<"n", "w">>, new |-> <<"n", "^w">>],
       [old |-> <<"k", "w">>, new |-> <<"k", "^w">>],
       [old |-> <<"q", "u">>, new |-> <<"k", "^w">>],
       [old |-> <<"p", "h">>, new |-> <<"p", "^h">>],
       [old |-> <<"t", "h">>, new |-> <<"t", "^h">>],
       [old |-> <<"k", "h">>, new |-> <<"k", "^h">>] >>

RECURSIVE ReplaceAll(_, _, _)
ReplaceAll(phonetic, pairs, k) ==
    IF k > Len(pairs) THEN phonetic
    ELSE ReplaceAll(Replace(phonetic, pairs[k].old, pairs[k].new), pairs, k + 1)

get_phonetic_form(transliteration) ==
    ReplaceAll(RemoveChar(transliteration, Hyphen), Digraphs, 1)

(***************************************************************************)
(* The data tables the engines are constructed from, and the inputs        *)
(***************************************************************************)
SeqsUpTo(S, n) == UNION { [1..k -> S] : k \in 0..n }

NoRepeat(s) == \A i, j \in 1..Len(s) : i # j => s[i] # s[j]

\* surface endings as a declension cell lists them: '-te', '-e', '-ka-te'
\* and the null marker
RawEndings ==
    { <<"-", "t", "e">>, <<"-", "e">>, <<"-", "k", "a", "-", "t", "e">>,
      <<NullMarker>> }

EndingLists == SeqsUpTo(RawEndings, MaxEndingsPerCell)

\* what a second declension lists, to register an ending under two readings
SecondEndingLists == { <<>>, << <<"-", "e">> >>, << <<"-", "t", "e">> >> }

\* keys of the case_markers section: '-' and 'te'
RawMarkerKeys == { <<"-">>, <<"t", "e">> }

MarkerInfo == [case |-> "dative", number |-> "singular", declension |-> None]

CaseMarkerTables ==
    { [i \in 1..Len(ks) |-> [key |-> ks[i], info |-> MarkerInfo]] :
        ks \in { s \in SeqsUpTo(RawMarkerKeys, MaxCaseMarkers) : NoRepeat(s) } }

Declensions(consEndings, oEndings) ==
    << [name |-> "consonant_stem",
        endings |-> << [key |-> [case |-> "dative", number |-> "singular"],
                        endings |-> consEndings] >>],
       [name |-> "o_stem_masculine",
        endings |-> << [key |-> [case |-> "nominative", number |-> "plural"],
                        endings |-> oEndings] >>] >>

ParadigmTables ==
    { [case_markers |-> cm, noun_declensions |-> Declensions(ce, oe)] :
        cm \in CaseMarkerTables, ce \in EndingLists, oe \in SecondEndingLists }

wa_na_ka == <<"w", "a", "-", "n", "a", "-", "k", "a">>
wa_na_ka_te == wa_na_ka \o <<"-", "t", "e">>
ka_te == <<"k", "a", "-", "t", "e">>

Lexicons ==
    { { [key |-> wa_na_ka, has_stem |-> TRUE, stem |-> <<"w", "a", "n", "a", "k">>],
        [key |-> ka_te, has_stem |-> FALSE, stem |-> <<>>] } }

Syllables == { <<"k", "a">>, <<"t", "e">>, <<"e">> }

\* the words of test_morphology the claims name
TestWords == { wa_na_ka, wa_na_ka_te }

Words ==
    { JoinWith(ss, <<Hyphen>>) : ss \in SeqsUpTo(Syllables, MaxSyll) }
    \cup { <<"k", "a", "t", "e">> }
    \cup TestWords

NoCall == [op |-> "none"]

NoRulesFile == [exists |-> FALSE, sound_changes |-> <<>>]

(***************************************************************************)
(* The sign table and the texts given to the tokenizer and transcriber     *)
(***************************************************************************)
\* data/syllabary.json 'signs': wa, na and ka; the sign nwa is not listed
DefaultSyllabary ==
    << [sign |-> SignWA, transliteration |-> <<"w", "a">>],
       [sign |-> SignNA, transliteration |-> <<"n", "a">>],
       [sign |-> SignKA, transliteration |-> <<"k", "a">>] >>

\* three listed syllabograms, one that is not listed, an ideogram, a digit,
\* a space, a line break, a no-break space and a letter
TextChars ==
    {SignWA, SignNA, SignKA, SignNWA, Ideogram, "5", " ", LineFeed,
     NoBreakSpace, "x"}

Texts == SeqsUpTo(TextChars, MaxTextLen)

Signs == { c \in TextChars : is_syllabogram(c) }

\* transliterations with a digraph, one of them only once the hyphens are
\* removed
PhoneticSamples ==
    { <<"q", "u", "-", "e">>, <<"n", "-", "w", "a">>,
      <<"k", "h", "a", "-", "p", "h", "a">> }

(***************************************************************************)
(* Actions: the morphological analyzer                                     *)
(***************************************************************************)
\* MorphologicalAnalyzer.__init__: the tables are loaded, the index is built
AnalyzerInit ==
    /\ "analyzer" \notin constructed
    /\ ending_map' = _build_ending_map(paradigms)
    /\ constructed' = constructed \cup {"analyzer"}
    /\ call' = [op |-> "MorphologicalAnalyzer"]
    /\ UNCHANGED <<paradigms, lexicon, rules_file, rules,
                 syllabary, text, kept>>

\* MorphologicalAnalyzer.segment_word(transliteration)
SegmentWordOn(words) ==
    /\ "analyzer" \in constructed
    /\ \E w \in words :
          call' = [op |-> "segment_word", transliteration |-> w,
                   result |-> segment_word(ending_map, lexicon, w)]
    /\ UNCHANGED <<paradigms, lexicon, ending_map, rules_file, rules, constructed,
                 syllabary, text, kept>>

SegmentWord == SegmentWordOn(Words)

InitMorph ==
    /\ paradigms \in ParadigmTables
    /\ lexicon \in Lexicons
    /\ ending_map = <<>>
    /\ rules_file = NoRulesFile
    /\ rules = <<>>
    /\ constructed = {}
    /\ call = NoCall
    /\ syllabary = DefaultSyllabary
    /\ text = <<>>
    /\ kept = NoCall

NextMorph == AnalyzerInit \/ SegmentWord

SpecMorph == InitMorph /\ [][NextMorph]_vars


(***************************************************************************)
(* The rule files and the forms given to the phonology engine              *)
(***************************************************************************)
\* rules a phonological_rules.json may hold: initial w loss, intervocalic
\* s > h, final s loss, and a rule whose target equals its source
RulePool ==
    { [name |-> "initial w loss", source |-> <<"w", "-">>,
       target |-> <<NullMarker>>, environment |-> "#_", period |-> "p1"],
      [name |-> "s to h", source |-> <<"-", "s", "-">>,
       target |-> <<"-", "h", "-">>, environment |-> "V_V", period |-> "p2"],
      [name |-> "final s loss", source |-> <<"-", "s">>,
       target |-> <<NullMarker>>, environment |-> "_#", period |-> "p3"],
      [name |-> "a stays a", source |-> <<"a">>,
       target |-> <<"a">>, environment |-> "", period |-> "Unknown"] }

RuleFiles ==
    { NoRulesFile }
    \cup { [exists |-> TRUE, sound_changes |-> rs] :
             rs \in {<<>>} \cup { <<r>> : r \in RulePool }
                    \cup { <<r, q>> : r \in RulePool, q \in RulePool } }

FormChars == {"w", "a", "s"}

\* Mycenaean forms: the forms over FormChars, 'W-a' and 'wanaks'
MycenaeanForms ==
    SeqsUpTo(FormChars, MaxFormLen)
    \cup { <<"W", "-", "a">>, <<"w", "a", "n", "a", "k", "s">> }

\* Classical forms: '', 'wa', 'Wa', 'S', 'anax'
ClassicalForms ==
    { <<>>, <<"w", "a">>, <<"W", "a">>, <<"S">>, <<"a", "n", "a", "x">> }

(***************************************************************************)
(* Actions: the phonology engine                                           *)
(***************************************************************************)
\* PhonologyEngine.__init__
PhonologyInit ==
    /\ "phonology" \notin constructed
    /\ rules' = IF rules_file.exists THEN _load_rules(rules_file)
                ELSE _default_rules
    /\ constructed' = constructed \cup {"phonology"}
    /\ call' = [op |-> "PhonologyEngine"]
    /\ UNCHANGED <<paradigms, lexicon, ending_map, rules_file,
                 syllabary, text, kept>>

\* PhonologyEngine.apply_changes(mycenaean_form, classical_form)
ApplyChangesOn(mycenaean_forms, classical_forms) ==
    /\ "phonology" \in constructed
    /\ \E m \in mycenaean_forms, c \in classical_forms :
          call' = [op |-> "apply_changes", mycenaean_form |-> m,
                   classical_form |-> c, result |-> apply_changes(rules, m, c)]
    /\ UNCHANGED <<paradigms, lexicon, ending_map, rules_file, rules, constructed,
                 syllabary, text, kept>>

ApplyChanges == ApplyChangesOn(MycenaeanForms, ClassicalForms)

\* current forms for _rule_applies: the forms over s and a, 'wa', 'was'
\* and 'sasa'
RuleCurrents ==
    SeqsUpTo({"s", "a"}, MaxFormLen)
    \cup { <<"w", "a">>, <<"w", "a", "s">>, <<"s", "a", "s", "a">> }

\* PhonologyEngine._rule_applies(current, target, rule) on a rule of the table
RuleApplies ==
    /\ "phonology" \in constructed
    /\ \E current \in RuleCurrents, target \in ClassicalForms, k \in 1..Len(rules) :
          call' = [op |-> "_rule_applies", current |-> current, target |-> target,
                   rule |-> rules[k],
                   result |-> _rule_applies(current, target, rules[k])]
    /\ UNCHANGED <<paradigms, lexicon, ending_map, rules_file, rules, constructed,
                 syllabary, text, kept>>

DefaultParadigms ==
    [case_markers |-> <<>>,
     noun_declensions |-> Declensions(<< <<"-", "t", "e">> >>, << <<"-", "e">> >>)]

InitPhon ==
    /\ paradigms = DefaultParadigms
    /\ lexicon \in Lexicons
    /\ ending_map = <<>>
    /\ rules_file \in RuleFiles
    /\ rules = <<>>
    /\ constructed = {}
    /\ call = NoCall
    /\ syllabary = DefaultSyllabary
    /\ text = <<>>
    /\ kept = NoCall

NextPhon == PhonologyInit \/ ApplyChanges

SpecPhon == InitPhon /\ [][NextPhon]_vars

NextRule == PhonologyInit \/ RuleApplies

SpecRule == InitPhon /\ [][NextRule]_vars

(***************************************************************************)
(* Actions: the paradigm generator                                         *)
(***************************************************************************)
\* stems: 'wanak', 'ka', 'kass'
GeneratorStems ==
    { <<"w", "a", "n", "a", "k">>, <<"k", "a">>, <<"k", "a", "s", "s">> }

DeclensionNames == {"consonant_stem", "o_stem_masculine", "u_stem"}

\* attested-forms lists: none, the two of the generator's docstring, 'KA-te'
AttestedLists ==
    { <<>>, <<wa_na_ka, wa_na_ka_te>>, << <<"K", "A", "-", "t", "e">> >> }

\* ParadigmGenerator.__init__: paradigms.json is loaded, the orthography
\* switches are set (all True)
GeneratorInit ==
    /\ "generator" \notin constructed
    /\ constructed' = constructed \cup {"generator"}
    /\ call' = [op |-> "ParadigmGenerator"]
    /\ UNCHANGED <<paradigms, lexicon, ending_map, rules_file, rules,
                 syllabary, text, kept>>

\* ParadigmGenerator.generate_noun_paradigm(stem, declension, gender, attested_forms)
GenerateNounParadigmOn(stems, declensions, attested_lists) ==
    /\ "generator" \in constructed
    /\ \E stem \in stems, d \in declensions, a \in attested_lists :
          call' = [op |-> "generate_noun_paradigm", stem |-> stem,
                   declension |-> d, gender |-> "masculine",
                   attested_forms |-> a,
                   result |-> generate_noun_paradigm(paradigms, stem, d,
                                                     "masculine", a)]
    /\ UNCHANGED <<paradigms, lexicon, ending_map, rules_file, rules, constructed,
                 syllabary, text, kept>>

GenerateNounParadigm ==
    GenerateNounParadigmOn(GeneratorStems, DeclensionNames, AttestedLists)

\* the phonological forms _apply_ending builds from the stems and the
\* listed endings, and 'wanakos', 'potnia'
PhonologicalForms ==
    { stem \o RemoveChar(RemoveChar(e, Hyphen), NullMarker) :
        stem \in GeneratorStems, e \in RawEndings }
    \cup { <<"w", "a", "n", "a", "k", "o", "s">>, <<"p", "o", "t", "n", "i", "a">> }

\* _syllabify(self, lb_form) on lb_form = _apply_orthographic_rules(x): the
\* module-level function, called as _apply_ending means to call it
SyllabifyOn(forms) ==
    /\ "generator" \in constructed
    /\ \E x \in forms :
          call' = [op |-> "_syllabify", surface |-> FALSE,
                   form |-> _apply_orthographic_rules(x),
                   result |-> _syllabify(_apply_orthographic_rules(x))]
    /\ UNCHANGED <<paradigms, lexicon, ending_map, rules_file, rules, constructed,
                 syllabary, text, kept>>

Syllabify == SyllabifyOn(PhonologicalForms)

\* _syllabify(self, s) on the surface form s it has just returned
Resyllabify ==
    /\ "generator" \in constructed
    /\ call.op = "_syllabify"
    /\ ~call.surface
    /\ call' = [op |-> "_syllabify", surface |-> TRUE, form |-> call.result,
                result |-> _syllabify(call.result)]
    /\ UNCHANGED <<paradigms, lexicon, ending_map, rules_file, rules, constructed,
                 syllabary, text, kept>>

\* endings passed to _apply_ending: the listed ones and '-os'
ApplyEndings == RawEndings \cup { <<"-", "o", "s">> }

\* generator._apply_ending(stem, ending, declension)
ApplyEnding ==
    /\ "generator" \in constructed
    /\ \E stem \in GeneratorStems, ending \in ApplyEndings :
          call' = [op |-> "_apply_ending", stem |-> stem, ending |-> ending,
                   declension |-> "consonant_stem",
                   result |-> Method("_apply_ending",
                                     _apply_ending(stem, ending, "consonant_stem"))]
    /\ UNCHANGED <<paradigms, lexicon, ending_map, rules_file, rules, constructed,
                 syllabary, text, kept>>

\* verbal roots: 'do', 'eke'
VerbRoots == { <<"d", "o">>, <<"e", "k", "e">> }

PartsOfSpeech == {"noun", "adjective", "verb", "particle"}

\* generator.generate_verb_paradigm(root, attested_forms)
GenerateVerbParadigm ==
    /\ "generator" \in constructed
    /\ \E root \in VerbRoots, a \in AttestedLists :
          call' = [op |-> "generate_verb_paradigm", root |-> root,
                   attested_forms |-> a,
                   result |-> Method("generate_verb_paradigm",
                                     generate_verb_paradigm(root, a))]
    /\ UNCHANGED <<paradigms, lexicon, ending_map, rules_file, rules, constructed,
                 syllabary, text, kept>>

\* generator.generate_all_forms(stem, pos, declension=..., gender=...,
\* attested_forms=...), as the generate route of app.py calls it
GenerateAllForms ==
    /\ "generator" \in constructed
    /\ \E stem \in GeneratorStems, pos \in PartsOfSpeech, d \in DeclensionNames :
          call' = [op |-> "generate_all_forms", stem |-> stem, pos |-> pos,
                   declension |-> d, gender |-> "masculine",
                   attested_forms |-> <<>>,
                   result |-> Method("generate_all_forms",
                                     generate_all_forms(paradigms, stem, pos, d,
                                                        "masculine", <<>>))]
    /\ UNCHANGED <<paradigms, lexicon, ending_map, rules_file, rules, constructed,
                 syllabary, text, kept>>

InitGen ==
    /\ paradigms \in ParadigmTables
    /\ lexicon \in Lexicons
    /\ ending_map = <<>>
    /\ rules_file = NoRulesFile
    /\ rules = <<>>
    /\ constructed = {}
    /\ call = NoCall
    /\ syllabary = DefaultSyllabary
    /\ text = <<>>
    /\ kept = NoCall

NextGen ==
    \/ GeneratorInit
    \/ GenerateNounParadigm
    \/ Syllabify
    \/ Resyllabify
    \/ GenerateVerbParadigm
    \/ GenerateAllForms
    \/ ApplyEnding

SpecGen == InitGen /\ [][NextGen]_vars

\* forms for the two scans: the forms over k, s and a, 'wanaks', 'kasss'
\* and 'potnia'
OrthForms ==
    SeqsUpTo({"k", "s", "a"}, MaxFormLen)
    \cup { <<"w", "a", "n", "a", "k", "s">>, <<"k", "a", "s", "s", "s">>,
           <<"p", "o", "t", "n", "i", "a">> }

\* generator._apply_orthographic_rules(form)
ApplyOrthographicRules ==
    /\ "generator" \in constructed
    /\ \E form \in OrthForms :
          call' = [op |-> "_apply_orthographic_rules", form |-> form,
                   result |-> _apply_orthographic_rules(form)]
    /\ UNCHANGED <<paradigms, lexicon, ending_map, rules_file, rules, constructed,
                 syllabary, text, kept>>

\* a scan is entered: i = 0 (here 1), nothing appended yet
StartScan ==
    /\ "generator" \in constructed
    /\ \E loop \in {"geminate", "syllabify"}, form \in OrthForms :
          call' = [op |-> "scan", loop |-> loop, form |-> form, i |-> 1,
                   out |-> <<>>]
    /\ UNCHANGED <<paradigms, lexicon, ending_map, rules_file, rules, constructed,
                 syllabary, text, kept>>

\* while i < len(form): one iteration of the loop being scanned
ScanStep ==
    /\ call.op = "scan"
    /\ call.i <= Len(call.form)
    /\ LET step == IF call.loop = "geminate"
                   THEN GeminateStep(call.form, call.i)
                   ELSE SyllabifyStep(call.form, call.i)
       IN  call' = [call EXCEPT !.i = step.i, !.out = @ \o step.out]
    /\ UNCHANGED <<paradigms, lexicon, ending_map, rules_file, rules, constructed,
                 syllabary, text, kept>>

InitOrth ==
    /\ paradigms = DefaultParadigms
    /\ lexicon \in Lexicons
    /\ ending_map = <<>>
    /\ rules_file = NoRulesFile
    /\ rules = <<>>
    /\ constructed = {}
    /\ call = NoCall
    /\ syllabary = DefaultSyllabary
    /\ text = <<>>
    /\ kept = NoCall

NextOrth ==
    \/ GeneratorInit
    \/ ApplyOrthographicRules
    \/ SyllabifyOn(OrthForms)
    \/ StartScan
    \/ ScanStep

SpecOrth == InitOrth /\ [][NextOrth]_vars

(***************************************************************************)
(* Actions: the tokenizer and the transcriber                              *)
(***************************************************************************)
\* LinearBTokenizer.__init__
TokenizerInit ==
    /\ "tokenizer" \notin constructed
    /\ constructed' = constructed \cup {"tokenizer"}
    /\ call' = [op |-> "LinearBTokenizer"]
    /\ UNCHANGED <<paradigms, lexicon, ending_map, rules_file, rules,
                 syllabary, text, kept>>

\* LinearBTokenizer.tokenize(text)
Tokenize ==
    /\ "tokenizer" \in constructed
    /\ call' = [op |-> "tokenize", text |-> text, result |-> tokenize(text)]
    /\ UNCHANGED <<paradigms, lexicon, ending_map, rules_file, rules, constructed,
                 syllabary, text, kept>>

\* LinearBTokenizer.segment_words(text)
SegmentWords ==
    /\ "tokenizer" \in constructed
    /\ call' = [op |-> "segment_words", text |-> text,
                result |-> segment_words(text)]
    /\ UNCHANGED <<paradigms, lexicon, ending_map, rules_file, rules, constructed,
                 syllabary, text, kept>>

\* LinearBTokenizer.get_word_strings(text)
GetWordStrings ==
    /\ "tokenizer" \in constructed
    /\ call' = [op |-> "get_word_strings", text |-> text,
                result |-> get_word_strings(text)]
    /\ UNCHANGED <<paradigms, lexicon, ending_map, rules_file, rules, constructed,
                 syllabary, text, kept>>

\* LinearBTranscriber.__init__: the sign table is loaded, the transcriber
\* makes a tokenizer of its own
TranscriberInit ==
    /\ "transcriber" \notin constructed
    /\ constructed' = constructed \cup {"transcriber"}
    /\ call' = [op |-> "LinearBTranscriber"]
    /\ UNCHANGED <<paradigms, lexicon, ending_map, rules_file, rules,
                 syllabary, text, kept>>

\* LinearBTranscriber.transcribe_sign(sign)
TranscribeSign ==
    /\ "transcriber" \in constructed
    /\ \E sign \in Signs :
          call' = [op |-> "transcribe_sign", sign |-> sign,
                   result |-> transcribe_sign(syllabary, sign)]
    /\ UNCHANGED <<paradigms, lexicon, ending_map, rules_file, rules, constructed,
                 syllabary, text, kept>>

\* LinearBTranscriber.transcribe_text(text)
TranscribeText ==
    /\ "transcriber" \in constructed
    /\ call' = [op |-> "transcribe_text", text |-> text,
                result |-> transcribe_text(syllabary, text)]
    /\ UNCHANGED <<paradigms, lexicon, ending_map, rules_file, rules, constructed,
                 syllabary, text, kept>>

\* LinearBTranscriber.get_phonetic_form(transliteration), given the
\* transliteration of a word transcribe_text returned, or a sample
GetPhoneticForm ==
    /\ "transcriber" \in constructed
    /\ \E t \in PhoneticSamples
              \cup (IF call.op = "transcribe_text"
                    THEN { call.result[k].transliteration :
                             k \in 1..Len(call.result) }
                    ELSE {}) :
          call' = [op |-> "get_phonetic_form", transliteration |-> t,
                   result |-> get_phonetic_form(t)]
    /\ UNCHANGED <<paradigms, lexicon, ending_map, rules_file, rules, constructed,
                 syllabary, text, kept>>

InitText ==
    /\ paradigms = DefaultParadigms
    /\ lexicon \in Lexicons
    /\ ending_map = <<>>
    /\ rules_file = NoRulesFile
    /\ rules = <<>>
    /\ constructed = {}
    /\ call = NoCall
    /\ syllabary = DefaultSyllabary
    /\ text \in Texts
    /\ kept = NoCall

NextText ==
    \/ TokenizerInit
    \/ Tokenize
    \/ SegmentWords
    \/ GetWordStrings
    \/ TranscriberInit
    \/ TranscribeSign
    \/ TranscribeText
    \/ GetPhoneticForm

SpecText == InitText /\ [][NextText]_vars

(***************************************************************************)
(* The application: app.py constructs the five engines and its routes call *)
(* them in any order                                                       *)
(***************************************************************************)
\* the words, forms, stems and texts of the engines' own tests
AppWords == TestWords \cup { <<>> }

AppMycenaeanForms ==
    { <<"w", "a", "n", "a", "k", "s">>, <<"W", "-", "a">>, <<"a", "s", "a">> }

AppClassicalForms == { <<"a", "n", "a", "x">>, <<"S">> }

AppRuleFiles ==
    { NoRulesFile,
      [exists |-> TRUE,
       sound_changes |->
           << [name |-> "initial w loss", source |-> <<"w", "-">>,
               target |-> <<NullMarker>>, environment |-> "#_", period |-> "p1"],
              [name |-> "s to h", source |-> <<"-", "s", "-">>,
               target |-> <<"-", "h", "-">>, environment |-> "V_V",
               period |-> "p2"] >>] }

AppParadigms ==
    { DefaultParadigms,
      [case_markers |-> <<>>,
       noun_declensions |-> Declensions(<< <<"-", "t", "e">> >>, <<>>)] }

AppStems == { <<"w", "a", "n", "a", "k">> }

AppTexts == { <<>>, <<SignWA, SignNA, SignKA>>, <<SignWA, " ", SignNWA>> }

\* explain_divergence as it would be if it dropped the first rule of
\* self.rules while it reads the table
ExplainDivergenceConsuming ==
    /\ "phonology" \in constructed
    /\ \E m \in AppMycenaeanForms, c \in AppClassicalForms :
          call' = [op |-> "explain_divergence", mycenaean_form |-> m,
                   classical_form |-> c, path |-> apply_changes(rules, m, c),
                   result |-> explain_divergence(rules, m, c)]
    /\ rules' = IF rules = <<>> THEN rules ELSE Tail(rules)
    /\ UNCHANGED <<paradigms, lexicon, ending_map, rules_file, constructed,
                 syllabary, text, kept>>

\* PhonologyEngine.explain_divergence(myc, clas): it calls apply_changes
ExplainDivergence ==
    /\ "phonology" \in constructed
    /\ \E m \in AppMycenaeanForms, c \in AppClassicalForms :
          call' = [op |-> "explain_divergence", mycenaean_form |-> m,
                   classical_form |-> c, path |-> apply_changes(rules, m, c),
                   result |-> explain_divergence(rules, m, c)]
    /\ UNCHANGED <<paradigms, lexicon, ending_map, rules_file, rules, constructed,
                 syllabary, text, kept>>

\* a caller keeps the DiachronicPath it has just been returned
KeepPath ==
    /\ call.op = "apply_changes"
    /\ kept # call
    /\ kept' = call
    /\ UNCHANGED <<paradigms, lexicon, ending_map, rules_file, rules, constructed,
                 call, syllabary, text>>

Init ==
    /\ paradigms \in AppParadigms
    /\ lexicon \in Lexicons
    /\ ending_map = <<>>
    /\ rules_file \in AppRuleFiles
    /\ rules = <<>>
    /\ constructed = {}
    /\ call = NoCall
    /\ syllabary = DefaultSyllabary
    /\ text \in AppTexts
    /\ kept = NoCall

Next ==
    \/ TokenizerInit
    \/ TranscriberInit
    \/ AnalyzerInit
    \/ PhonologyInit
    \/ GeneratorInit
    \/ SegmentWords
    \/ TranscribeText
    \/ SegmentWordOn(AppWords)
    \/ GenerateNounParadigmOn(AppStems, DeclensionNames, AttestedLists)
    \/ ApplyChangesOn(AppMycenaeanForms, AppClassicalForms)
    \/ ExplainDivergence
    \/ KeepPath

Spec == Init /\ [][Next]_vars

(***************************************************************************)
(* Properties of the morphological analyzer (SpecMorph)                    *)
(***************************************************************************)
SegCall == call.op = "segment_word"

SegKnown == LexiconHas(lexicon, call.transliteration)

SegNorm == RemoveChar(call.transliteration, Hyphen)

RegisteredEndings == { ending_map[i].ending : i \in 1..Len(ending_map) }

RECURSIVE SumOver(_, _)
SumOver(S, f) ==
    IF S = {} THEN 0
    ELSE LET x == CHOOSE y \in S : TRUE IN f[x] + SumOver(S \ {x}, f)

\* C1: the list segment_word returns is ordered by confidence,
\* non-increasing, for every input (lexicon key or not, '' included).
C1_ConfidenceNonIncreasing ==
    SegCall =>
        \A i \in 1..(Len(call.result) - 1) :
            call.result[i].confidence >= call.result[i + 1].confidence

\* an unknown word with analyses of two different confidences was segmented
C1_Witness ==
    /\ SegCall
    /\ \E i \in 1..(Len(call.result) - 1) :
          call.result[i].confidence > call.result[i + 1].confidence

\* C2: every analysis carries exactly one of the five confidence values:
\* 0.9 iff lexicon key and non-empty registered ending; 0.8 iff lexicon key
\* and no registered ending suffixes the input (then a single citation-form
\* analysis: empty ending, nominative, singular); 0.6 iff not a lexicon key
\* and matched ending of length >= 2; 0.4 iff not a lexicon key and matched
\* ending of length 1; 0.1 iff not a lexicon key and no ending matched.
C2_ConfidenceBands ==
    SegCall =>
        \A i \in 1..Len(call.result) :
            LET a == call.result[i] IN
            /\ a.confidence \in {9, 8, 6, 4, 1}
            /\ (a.confidence = 9) <=>
                  (SegKnown /\ a.ending # <<>> /\ a.ending \in RegisteredEndings)
            /\ (a.confidence = 8) <=>
                  (SegKnown /\ ~\E e \in RegisteredEndings : EndsWith(SegNorm, e))
            /\ (a.confidence = 8) =>
                  (/\ Len(call.result) = 1
                   /\ a.ending = <<>>
                   /\ a.case = "nominative"
                   /\ a.number = "singular")
            /\ (a.confidence = 6) <=> (~SegKnown /\ Len(a.ending) >= 2)
            /\ (a.confidence = 4) <=> (~SegKnown /\ Len(a.ending) = 1)
            /\ (a.confidence = 1) <=> (~SegKnown /\ a.ending = <<>>)

\* C3: segment_word returns a non-empty list for every input, and for an
\* input that is not a lexicon key and that no registered ending suffixes
\* leaving a stem of at least 2 characters, the result is exactly the
\* fallback analysis: stem = the hyphen-stripped input, empty ending, 0.1.
C3_TotalWithFallback ==
    SegCall =>
        /\ Len(call.result) >= 1
        /\ ( /\ ~SegKnown
             /\ ~\E e \in RegisteredEndings :
                    EndsWith(SegNorm, e) /\ Len(SegNorm) - Len(e) >= 2 )
           => ( /\ Len(call.result) = 1
                /\ call.result[1].stem = SegNorm
                /\ call.result[1].ending = <<>>
                /\ call.result[1].confidence = 1 )

\* a word that a registered ending suffixes, but with a stem too short,
\* came back as the fallback
C3_Witness ==
    /\ SegCall
    /\ ~SegKnown
    /\ \E e \in RegisteredEndings : e # <<>> /\ EndsWith(SegNorm, e)
    /\ ~\E e \in RegisteredEndings :
           EndsWith(SegNorm, e) /\ Len(SegNorm) - Len(e) >= 2
    /\ Len(call.result) = 1
    /\ call.result[1].confidence = 1

\* C4: with 'wa-na-ka' the only relevant lexicon key and 'te' registered as
\* dative, segment_word('wa-na-ka-te') returns a first analysis with ending
\* 'te', case dative and confidence 0.9.
C4_InflectedLemmaAttested ==
    ( /\ SegCall
      /\ call.transliteration = wa_na_ka_te
      /\ LexiconHas(lexicon, wa_na_ka)
      /\ ~LexiconHas(lexicon, wa_na_ka_te)
      /\ \E i \in 1..Len(ending_map) :
            /\ ending_map[i].ending = <<"t", "e">>
            /\ ending_map[i].infos[1].case = "dative"
      /\ ~\E i \in 1..Len(ending_map) :
            ending_map[i].ending = <<"k", "a", "t", "e">> )
    => ( /\ call.result[1].ending = <<"t", "e">>
         /\ call.result[1].case = "dative"
         /\ call.result[1].confidence = 9 )

\* C5: the ending index _build_ending_map builds has no entry keyed on the
\* empty string, for every paradigm table.
C5_NoEmptyKey ==
    "analyzer" \in constructed =>
        \A i \in 1..Len(ending_map) : ending_map[i].ending # <<>>


\* the places of the paradigm table that list a surface ending:
\* <<declension, cell, position>>
ListedEndings ==
    UNION { UNION { { <<d, c, j>> :
                        j \in 1..Len(paradigms.noun_declensions[d].endings[c].endings) } :
                    c \in 1..Len(paradigms.noun_declensions[d].endings) } :
            d \in 1..Len(paradigms.noun_declensions) }

ListedEnding(t) == paradigms.noun_declensions[t[1]].endings[t[2]].endings[t[3]]

ListedReading(t) ==
    [case |-> paradigms.noun_declensions[t[1]].endings[t[2]].key.case,
     number |-> paradigms.noun_declensions[t[1]].endings[t[2]].key.number,
     declension |-> paradigms.noun_declensions[t[1]].name]

\* the analyses of the result that carry ending e, in result order
AnalysesWith(e) == SelectSeq(call.result, LAMBDA a : a.ending = e)

ReadingOf(a) == [case |-> a.case, number |-> a.number, declension |-> a.declension]

\* C6: lookups stay list-valued, never deduplicated or collapsed to the
\* first match.  The index holds one entry per (declension, cell, listed
\* ending) whose stripped ending is non-empty; for a lexicon key,
\* segment_word returns exactly one analysis per (registered ending that
\* suffixes the normalized form, reading registered under it), so the
\* number of 0.9 analyses is the sum of the reading-list lengths of the
\* registered endings that suffix the form.
C6_ListValuedLookups ==
    /\ "analyzer" \in constructed =>
          \A t \in ListedEndings :
              LET e == CleanDeclEnding(ListedEnding(t))
                  r == ListedReading(t)
              IN  e # <<>> =>
                    \E i \in 1..Len(ending_map) :
                        /\ ending_map[i].ending = e
                        /\ Cardinality({ j \in 1..Len(ending_map[i].infos) :
                                            ending_map[i].infos[j] = r })
                           = Cardinality({ u \in ListedEndings :
                                            /\ CleanDeclEnding(ListedEnding(u)) = e
                                            /\ ListedReading(u) = r })
    /\ (SegCall /\ SegKnown) =>
          LET matching == { i \in 1..Len(ending_map) :
                              EndsWith(SegNorm, ending_map[i].ending) }
          IN  /\ \A i \in matching :
                    LET with == AnalysesWith(ending_map[i].ending)
                    IN  /\ Len(with) = Len(ending_map[i].infos)
                        /\ \A j \in 1..Len(with) :
                              /\ ReadingOf(with[j]) = ending_map[i].infos[j]
                              /\ with[j].confidence = 9
              /\ Cardinality({ k \in 1..Len(call.result) :
                                  call.result[k].confidence = 9 })
                 = SumOver(matching, [i \in matching |-> Len(ending_map[i].infos)])

\* C7: for an input that is not a lexicon key the analyses are ordered by
\* ending length, longest first; analyses with endings of equal length are
\* in the order the endings were first registered in the index; every
\* analysis with a non-empty ending has a stem of at least 2 characters.
IndexPosition(e) == CHOOSE i \in 1..Len(ending_map) : ending_map[i].ending = e

C7_LongestEndingFirst ==
    (SegCall /\ ~SegKnown) =>
        /\ \A i \in 1..(Len(call.result) - 1) :
              LET a == call.result[i]
                  b == call.result[i + 1]
              IN  /\ Len(a.ending) >= Len(b.ending)
                  /\ (Len(a.ending) = Len(b.ending) /\ a.ending # <<>>) =>
                        IndexPosition(a.ending) <= IndexPosition(b.ending)
        /\ \A i \in 1..Len(call.result) :
              call.result[i].ending # <<>> => Len(call.result[i].stem) >= 2

\* an unknown word matched by three endings of different lengths, the
\* shortest stem being exactly 2 characters
C7_Witness ==
    /\ SegCall
    /\ ~SegKnown
    /\ \E i, j \in 1..Len(call.result) :
          /\ i < j
          /\ Len(call.result[i].ending) > Len(call.result[j].ending)
          /\ Len(call.result[j].ending) >= 2
          /\ Len(call.result[i].stem) = 2

\* C29: every analysis segment_word returns splits the input exactly: its
\* stem followed by its ending is the input transliteration without
\* hyphens.
C29_StemPlusEndingIsWord ==
    SegCall =>
        \A i \in 1..Len(call.result) :
            call.result[i].stem \o call.result[i].ending = SegNorm


(***************************************************************************)
(* Properties of the phonology engine (SpecPhon)                           *)
(***************************************************************************)
PhonCall == call.op = "apply_changes"

Stages == call.result.intermediate_stages

Applied == call.result.changes_applied

\* C9: apply_changes scans the rule table once, in authored order: the
\* applied rules have strictly increasing table positions, and each applied
\* rule fired on, and was applied to, the form of the preceding stage.
C9_SinglePassInOrder ==
    PhonCall =>
        /\ \A k \in 1..Len(Applied) : Applied[k] \in 1..Len(rules)
        /\ \A k \in 1..(Len(Applied) - 1) : Applied[k] < Applied[k + 1]
        /\ Len(Stages) >= Len(Applied) + 1
        /\ \A k \in 1..Len(Applied) :
              /\ _rule_applies(Stages[k].form, call.classical_form, rules[Applied[k]])
              /\ Stages[k + 1].form = _apply_rule(Stages[k].form, rules[Applied[k]])
              /\ Stages[k + 1].change = rules[Applied[k]].name

\* two rules were applied, and the second one would not have fired on the
\* Mycenaean form, or would have given another form from it
C9_Witness ==
    /\ PhonCall
    /\ Len(Applied) = 2
    /\ \/ ~_rule_applies(Stages[1].form, call.classical_form, rules[Applied[2]])
       \/ _apply_rule(Stages[1].form, rules[Applied[2]]) # Stages[3].form

\* C10: the stage list is the Mycenaean stage, one stage per applied rule,
\* the Classical stage: its length is len(changes_applied) + 2, its first
\* form is the Mycenaean input without hyphens and lower-cased, every rule
\* stage differs from the stage before it, its last form is the lower-cased
\* classical input.
C10_StageListShape ==
    PhonCall =>
        /\ Len(Stages) = Len(Applied) + 2
        /\ Stages[1].form = LowerStr(RemoveChar(call.mycenaean_form, Hyphen))
        /\ \A k \in 2..(Len(Stages) - 1) : Stages[k].form # Stages[k - 1].form
        /\ Stages[Len(Stages)].form = LowerStr(call.classical_form)

\* a rule fired without changing the form (so it has no stage) in a scan
\* that applied another rule, on inputs that normalization changes
C10_Witness ==
    /\ PhonCall
    /\ Len(Applied) >= 1
    /\ \E i \in 1..Len(rules) :
          /\ \A k \in 1..Len(Applied) : Applied[k] # i
          /\ \E k \in 1..(Len(Stages) - 1) :
                /\ _rule_applies(Stages[k].form, call.classical_form, rules[i])
                /\ _apply_rule(Stages[k].form, rules[i]) = Stages[k].form
    /\ Stages[1].form # call.mycenaean_form
    /\ Stages[Len(Stages)].form # call.classical_form

\* the call apply_changes('wanaks', 'anax') on the built-in rule table
WanaksCall ==
    /\ PhonCall
    /\ ~rules_file.exists
    /\ call.mycenaean_form = <<"w", "a", "n", "a", "k", "s">>
    /\ call.classical_form = <<"a", "n", "a", "x">>

\* C12: with the built-in rule table, apply_changes('wanaks', 'anax')
\* applies at least one rule that is the initial-digamma-loss rule or the
\* final-stop-loss rule, and the form of its final stage is 'anax'.
C12_WanaksToAnax ==
    WanaksCall =>
        /\ \E k \in 1..Len(Applied) :
              rules[Applied[k]].name \in {"Initial digamma loss", "Final stop loss"}
        /\ Stages[Len(Stages)].form = <<"a", "n", "a", "x">>

\* the call was made and applied the initial digamma loss, giving 'anaks'
C12_Witness ==
    /\ WanaksCall
    /\ Applied = <<1>>
    /\ Stages[2].form = <<"a", "n", "a", "k", "s">>

\* C28: the rule-firing decisions of apply_changes depend only on the
\* lower-cased classical form: apply_changes(m, c) returns the applied rules
\* and the stages of apply_changes(m, lowercase(c)).
C28_ClassicalCaseIrrelevant ==
    call.op = "apply_changes" =>
        LET lowered == apply_changes(rules, call.mycenaean_form,
                                     LowerStr(call.classical_form))
        IN  /\ Applied = lowered.changes_applied
            /\ Stages = lowered.intermediate_stages

(***************************************************************************)
(* Properties of _rule_applies (SpecRule)                                  *)
(***************************************************************************)
\* the 0-based offsets at which segment occurs in word
Occurrences(word, segment) ==
    { i \in 0..(Len(word) - Len(segment)) :
        SubSeq(word, i + 1, i + Len(segment)) = segment }

\* C26: with source the rule's source pattern without separators,
\* _rule_applies is true exactly when: word-initial environment, current
\* starts with source and target does not; word-final, current ends with
\* source and target does not; intervocalic, some occurrence of source in
\* current has a vowel just before it and a vowel just after it; any other
\* environment, source occurs in current and not in target.
C26_RuleAppliesExactly ==
    call.op = "_rule_applies" =>
        LET source == RemoveChar(call.rule.source, Hyphen)
            current == call.current
            target == call.target
        IN  call.result
              <=> IF call.rule.environment = "#_"
                  THEN StartsWith(current, source) /\ ~StartsWith(target, source)
                  ELSE IF call.rule.environment = "_#"
                  THEN EndsWith(current, source) /\ ~EndsWith(target, source)
                  ELSE IF call.rule.environment = "V_V"
                  THEN \E i \in Occurrences(current, source) :
                          /\ i >= 1
                          /\ i + Len(source) + 1 <= Len(current)
                          /\ current[i] \in Vowels
                          /\ current[i + Len(source) + 1] \in Vowels
                  ELSE /\ Occurrences(current, source) # {}
                       /\ Occurrences(target, source) = {}


(***************************************************************************)
(* Properties of the paradigm generator (SpecGen)                          *)
(***************************************************************************)
NounCall == call.op = "generate_noun_paradigm"

\* normalize: hyphens removed, lower-cased
NormalForm(f) == LowerStr(RemoveChar(f, Hyphen))

\* C8: generate_noun_paradigm returns the forms of the paradigm, and a form
\* is marked attested exactly when its surface form, hyphens removed and
\* lower-cased, equals an element of the attested list treated the same way;
\* every other cell is attested = false.
C8_AttestedIffNormalizedMatch ==
    NounCall =>
        /\ call.result.raised = None
        /\ \A k \in 1..Len(call.result.value) :
              call.result.value[k].attested <=>
                  \E j \in 1..Len(call.attested_forms) :
                      NormalForm(call.attested_forms[j])
                          = NormalForm(call.result.value[k].form)

\* C13: syllabification is stable under re-application: a surface form s
\* produced by _syllabify(_apply_orthographic_rules(x)) satisfies
\* _syllabify(s) = s.
C13_SyllabifyStable ==
    (call.op = "_syllabify" /\ call.surface) => call.result = call.form

\* C16: generate_all_forms never raises: for 'noun' and 'adjective' it
\* returns the noun paradigm under 'inflected_forms', for 'verb' the verb
\* paradigm under 'conjugated_forms', for any other part of speech an empty
\* result.
C16_AllFormsTotal ==
    call.op = "generate_all_forms" =>
        /\ call.result.raised = None
        /\ call.pos \in {"noun", "adjective"} =>
              ( /\ Len(call.result.value) = 1
                /\ call.result.value[1].key = "inflected_forms" )
        /\ call.pos = "verb" =>
              ( /\ Len(call.result.value) = 1
                /\ call.result.value[1].key = "conjugated_forms" )
        /\ call.pos \notin {"noun", "adjective", "verb"} =>
              call.result.value = <<>>

\* C17: generate_noun_paradigm called with a declension name that is not in
\* the templates does not fail, and returns what it returns for
\* 'o_stem_masculine' with the same stem, gender and attested list.
C17_UnknownDeclensionFallsBack ==
    ( /\ NounCall
      /\ ~\E d \in 1..Len(paradigms.noun_declensions) :
             paradigms.noun_declensions[d].name = call.declension )
    => ( /\ call.result.raised = None
         /\ call.result = generate_noun_paradigm(paradigms, call.stem,
                               "o_stem_masculine", call.gender,
                               call.attested_forms) )

\* C18: generate_verb_paradigm returns eight cells for every root: the six
\* present indicative forms (persons '1st', '2nd', '3rd', singular and
\* plural), one future and one aorist third person singular.
C18_VerbParadigmEightCells ==
    call.op = "generate_verb_paradigm" =>
        /\ call.result.raised = None
        /\ Len(call.result.value) = 8
        /\ \A k \in 1..6 :
              /\ call.result.value[k].tense = "present"
              /\ call.result.value[k].person
                    = << <<"1", "s", "t">>, <<"2", "n", "d">>, <<"3", "r", "d">>,
                         <<"1", "s", "t">>, <<"2", "n", "d">>, <<"3", "r", "d">> >>[k]
              /\ call.result.value[k].number
                    = IF k <= 3 THEN "singular" ELSE "plural"
        /\ call.result.value[7].tense = "future"
        /\ call.result.value[8].tense = "aorist"

\* the declension of the call is in the templates and lists an ending
ListsAnEnding ==
    /\ HasDeclension(paradigms, call.declension)
    /\ \E c \in 1..Len(DeclensionData(paradigms, call.declension).endings) :
          DeclensionData(paradigms, call.declension).endings[c].endings # <<>>

\* C21: with the tables loaded, generate_noun_paradigm returns a list of
\* forms without raising for every stem, every declension of the templates
\* that lists at least one ending, every gender and every attested list;
\* and generate_verb_paradigm returns a list for every root.
C21_GenerationTotal ==
    /\ (NounCall /\ ListsAnEnding) => call.result.raised = None
    /\ call.op = "generate_verb_paradigm" => call.result.raised = None

\* C22: _apply_ending returns the pair (syllabified surface form,
\* reconstruction), the reconstruction being the stem followed by the ending
\* without its separators (the bare stem for the null-ending marker or an
\* empty ending); for stem 'wanak' and ending '-os' it returns
\* ('wa-na-ko', 'wanakos').
C22_ApplyEndingPair ==
    call.op = "_apply_ending" =>
        /\ call.result.raised = None
        /\ Len(call.result.value) = 2
        /\ call.result.value[2]
              = IF RemoveChar(call.ending, Hyphen) \in { <<NullMarker>>, <<>> }
                THEN call.stem
                ELSE call.stem \o RemoveChar(call.ending, Hyphen)
        /\ ( /\ call.stem = <<"w", "a", "n", "a", "k">>
             /\ call.ending = <<"-", "o", "s">> )
           => call.result.value
                = << <<"w", "a", "-", "n", "a", "-", "k", "o">>,
                     <<"w", "a", "n", "a", "k", "o", "s">> >>


(***************************************************************************)
(* Properties of the tokenizer and the transcriber (SpecText)              *)
(***************************************************************************)
\* s.split(sep) for a one-character sep
RECURSIVE SplitOn(_, _)
SplitOn(s, sep) ==
    LET hits == { i \in 1..Len(s) : s[i] = sep }
    IN  IF hits = {} THEN <<s>>
        ELSE LET i == CHOOSE h \in hits : \A g \in hits : h <= g
             IN  <<SubSeq(s, 1, i - 1)>> \o SplitOn(SubSeq(s, i + 1, Len(s)), sep)

\* the text is one run of syllabograms, all of them in the sign table
ListedRun ==
    /\ text # <<>>
    /\ \A i \in 1..Len(text) :
          /\ Ord(text[i]) \in 65536..65663
          /\ \E k \in 1..Len(syllabary) : syllabary[k].sign = text[i]

\* the table transliteration of a listed sign
Listed(sign) ==
    syllabary[CHOOSE k \in 1..Len(syllabary) : syllabary[k].sign = sign].transliteration

HasDigraph(s) ==
    \E i \in 1..(Len(s) - 1) :
        <<s[i], s[i + 1]>> \in { <<"n", "w">>, <<"k", "w">>, <<"q", "u">>,
                                 <<"p", "h">>, <<"t", "h">>, <<"k", "h">> }

\* C14: for a text that is a single run of syllabograms all present in the
\* sign table, transcribe_text returns exactly one result, whose
\* transliteration is the table transliterations of the signs, in order,
\* joined by hyphens; get_phonetic_form of a transliteration with none of
\* the six digraphs after hyphen removal is the concatenation of its
\* syllables.
C14_TranscribeRun ==
    /\ (call.op = "transcribe_text" /\ ListedRun) =>
          /\ Len(call.result) = 1
          /\ call.result[1].transliteration
                = JoinWith([i \in 1..Len(text) |-> Listed(text[i])], <<Hyphen>>)
    /\ ( /\ call.op = "get_phonetic_form"
         /\ ~HasDigraph(RemoveChar(call.transliteration, Hyphen)) ) =>
          call.result = JoinWith(SplitOn(call.transliteration, Hyphen), <<>>)

\* the signs wa, na, ka were transcribed as 'wa-na-ka', whose phonetic form
\* came back as 'wanaka'
C14_Witness ==
    /\ text = <<SignWA, SignNA, SignKA>>
    /\ call.op = "get_phonetic_form"
    /\ call.transliteration = wa_na_ka
    /\ call.result = <<"w", "a", "n", "a", "k", "a">>

\* the text has no syllabogram, no logogram and no digit
NothingToRead ==
    \A i \in 1..Len(text) :
        /\ Ord(text[i]) \notin 65536..65786
        /\ Ord(text[i]) \notin 48..57

\* C15: for the empty text, and for a text with no syllabogram, logogram or
\* digit (only dividers, line breaks and unknown characters),
\* segment_words, get_word_strings and transcribe_text return an empty
\* list.
C15_EmptyTextNoWords ==
    ( /\ call.op \in {"segment_words", "get_word_strings", "transcribe_text"}
      /\ NothingToRead )
    => call.result = <<>>

\* segment_words was given a text of a letter, a divider and a line break
C15_Witness ==
    /\ call.op = "segment_words"
    /\ Len(text) = 3
    /\ NothingToRead
    /\ \E i, j, k \in 1..3 : text[i] = "x" /\ text[j] = " " /\ text[k] = LineFeed

\* C19: for a sign that is not in the sign table transcribe_sign returns a
\* marked placeholder string, not no value; and a word with such a sign is
\* transcribed with the placeholder at the sign's position, the other signs
\* transliterated as listed.
C19_PlaceholderOnMiss ==
    /\ ( /\ call.op = "transcribe_sign"
         /\ ~\E k \in 1..Len(syllabary) : syllabary[k].sign = call.sign )
       => ( /\ call.result # NoneStr
            /\ call.result # <<>>
            /\ \E i \in 1..Len(call.result) : call.result[i] = call.sign )
    /\ ( /\ call.op = "transcribe_text"
         /\ text # <<>>
         /\ \A i \in 1..Len(text) : Ord(text[i]) \in 65536..65663 )
       => ( /\ Len(call.result) = 1
            /\ call.result[1].transliteration
                  = JoinWith([i \in 1..Len(text) |->
                                 IF \E k \in 1..Len(syllabary) :
                                        syllabary[k].sign = text[i]
                                 THEN Listed(text[i])
                                 ELSE <<"[", "?", text[i], "]">>],
                             <<Hyphen>>) )

SegWordsCall == call.op = "segment_words"

\* the four shapes of a word, read from the characters of its tokens
SyllabogramRun(w) ==
    /\ w # <<>>
    /\ \A k \in 1..Len(w) : is_syllabogram(w[k].char)

LoneLogogram(w) == Len(w) = 1 /\ is_logogram(w[1].char)

LogogramWithDigit(w) ==
    Len(w) = 2 /\ is_logogram(w[1].char) /\ IsDigit(w[2].char)

LoneDigit(w) == Len(w) = 1 /\ IsDigit(w[1].char)

\* whether the word most recently emitted before character i of the text
\* ends in a logogram, read backwards from character j: a logogram is a
\* word by itself, a digit ends the word it is in, and a run of
\* syllabograms is emitted only once a divider has followed it
RECURSIVE LastEmittedIsLogogram(_, _, _)
LastEmittedIsLogogram(t, j, divided) ==
    IF j = 0 THEN FALSE
    ELSE IF is_logogram(t[j]) THEN TRUE
    ELSE IF is_syllabogram(t[j])
         THEN IF divided THEN FALSE ELSE LastEmittedIsLogogram(t, j - 1, FALSE)
    ELSE IF is_delimiter(t[j]) THEN LastEmittedIsLogogram(t, j - 1, TRUE)
    ELSE IF IsDigit(t[j]) THEN FALSE
    ELSE LastEmittedIsLogogram(t, j - 1, divided)

\* C23: every word segment_words returns is a run of syllabograms, a single
\* logogram, a logogram followed by one digit, or a single digit; a digit is
\* appended to a word exactly when the word emitted last before it ends in
\* a logogram, and is a word of its own otherwise; dividers, line breaks
\* and unknown characters are in no word.
C23_WordShapes ==
    SegWordsCall =>
        /\ \A k \in 1..Len(call.result) :
              \/ SyllabogramRun(call.result[k])
              \/ LoneLogogram(call.result[k])
              \/ LogogramWithDigit(call.result[k])
              \/ LoneDigit(call.result[k])
        /\ \A i \in 1..Len(text) :
              IsDigit(text[i]) /\ ~is_syllabogram(text[i]) /\ ~is_logogram(text[i])
                  /\ ~is_delimiter(text[i]) =>
                \E k \in 1..Len(call.result) :
                    LET w == call.result[k]
                    IN  /\ w[Len(w)].position = i - 1
                        /\ Len(w) = IF LastEmittedIsLogogram(text, i - 1, FALSE)
                                    THEN 2 ELSE 1

\* the text was a logogram, a sign and a digit: the logogram took the
\* digit, and the sign is the second word
C23_Witness ==
    /\ SegWordsCall
    /\ text = <<Ideogram, SignKA, "5">>
    /\ Len(call.result) = 2
    /\ LogogramWithDigit(call.result[1])
    /\ SyllabogramRun(call.result[2])

\* the source offsets of the tokens, read word by word
RECURSIVE Offsets(_)
Offsets(words) ==
    IF words = <<>> THEN <<>>
    ELSE [k \in 1..Len(Head(words)) |-> Head(words)[k].position]
         \o Offsets(Tail(words))

\* C27: segment_words emits words in source order: read word by word and
\* token by token, the source offsets of the tokens are strictly increasing,
\* for every text.
C27_SourceOrder ==
    SegWordsCall =>
        \A k \in 1..(Len(Offsets(call.result)) - 1) :
            Offsets(call.result)[k] < Offsets(call.result)[k + 1]


(***************************************************************************)
(* Properties of the orthography and syllabification scans (SpecOrth)      *)
(***************************************************************************)
\* C24: for every input form, runs of three or more identical consonants
\* included, the output of _apply_orthographic_rules has no two adjacent
\* identical consonants.
C24_NoDoubledConsonant ==
    call.op = "_apply_orthographic_rules" =>
        \A k \in 1..(Len(call.result) - 1) :
            ~( /\ call.result[k] = call.result[k + 1]
               /\ call.result[k] \notin GeneratorVowels )

\* C25: for a form f that _apply_orthographic_rules returned, every
\* hyphen-separated syllable of _syllabify(f) is one consonant followed by
\* one vowel, a single vowel, or (last syllable only) a single s, n or r:
\* no syllable has two consonants, and the surface form ends in no other
\* consonant.
C25_SyllableShapes ==
    (call.op = "_syllabify" /\ ~call.surface /\ call.result # <<>>) =>
        LET syllables == SplitOn(call.result, Hyphen)
        IN  \A k \in 1..Len(syllables) :
                LET syl == syllables[k]
                IN  \/ /\ Len(syl) = 2
                       /\ syl[1] \notin GeneratorVowels
                       /\ syl[2] \in GeneratorVowels
                    \/ Len(syl) = 1 /\ syl[1] \in GeneratorVowels
                    \/ /\ Len(syl) = 1
                       /\ syl[1] \in {"s", "n", "r"}
                       /\ k = Len(syllables)

\* C30: the geminate-removal scan and the syllabify scan terminate: at
\* every index inside the form the next iteration strictly advances the
\* index, the index never passes the end of the form by more than one, and
\* at the end the scan has built what the function returns.
C30_ScansAdvance ==
    call.op = "scan" =>
        LET step == IF call.loop = "geminate"
                    THEN GeminateStep(call.form, call.i)
                    ELSE SyllabifyStep(call.form, call.i)
        IN  /\ call.i <= Len(call.form) + 1
            /\ call.i <= Len(call.form) =>
                  (step.i > call.i /\ step.i <= Len(call.form) + 1)
            /\ call.i = Len(call.form) + 1 =>
                  call.out = IF call.loop = "geminate"
                             THEN GeminateLoop(call.form, 1)
                             ELSE SyllabifyLoop(call.form, 1)

\* the syllabify scan of 'ksa' took the cluster branch, skipped from the
\* first index past the end and has built the one syllable 'sa'
C30_Witness ==
    /\ call.op = "scan"
    /\ call.loop = "syllabify"
    /\ call.form = <<"k", "s", "a">>
    /\ call.i = 4
    /\ call.out = << <<"s", "a">> >>


(***************************************************************************)
(* Properties of the application (Spec)                                    *)
(***************************************************************************)
\* the DiachronicPath a call of the phonology engine computed
PathOf(c) == IF c.op = "explain_divergence" THEN c.path ELSE c.result

\* the call asks for the path of the inputs of the kept path
SameInputs ==
    /\ call.op \in {"apply_changes", "explain_divergence"}
    /\ kept.op = "apply_changes"
    /\ call.mycenaean_form = kept.mycenaean_form
    /\ call.classical_form = kept.classical_form

EngineOps ==
    {"segment_words", "transcribe_text", "segment_word",
     "generate_noun_paradigm", "apply_changes", "explain_divergence"}

\* sign table, lexicon, ending index, declension templates, ordered rule list
LoadedTables == <<syllabary, lexicon, ending_map, paradigms, rules>>

AllConstructed ==
    constructed = {"tokenizer", "transcriber", "analyzer", "phonology", "generator"}

=============================================================================
